---- MODULE Spec2Model ----
(***************************************************************************)
(* Stepper motor controller (src/stepper.ino): position state, named       *)
(* position table, shortest-path GOTO and the EEPROM record layout.        *)
(*                                                                         *)
(* One action per serial command handled by processCommand, plus a power   *)
(* cycle (volatile state lost, setup() runs loadFromEEPROM).  Strings are  *)
(* sequences of character codes; the EEPROM is an array of bytes.          *)
(***************************************************************************)
EXTENDS Integers, Sequences, FiniteSets, TLC

VARIABLES
    currentPosition,    \* long currentPosition                (line 39)
    resetPosition,      \* long resetPosition                  (line 40)
    positionNames,      \* String positionNames[maxPositions]  (line 43)
    positionValues,     \* long positionValues[maxPositions]   (line 44)
    positionCount,      \* int positionCount                   (line 45)
    lastSavedPosition,  \* static long in saveToEEPROM         (line 351)
    eeprom,             \* the EEPROM bytes
    dirPin,             \* level of the A4988 DIR line
    ref,                \* <<>>, or <<the state of a reference controller
                        \* whose saveToEEPROM writes every time it is called>>
    script,             \* number of the next command of the scripted
                        \* session the user is typing; -1: the user is not
                        \* (or no longer) typing the session
    budget,             \* commands outside the session still to be explored
                        \* once the session has begun; -1: no session was
                        \* begun, no limit
    motor               \* <<>>, or <<the steps the motor shaft has turned
                        \* since the first boot, to the right counted
                        \* positive>>

vars == <<currentPosition, resetPosition, positionNames, positionValues,
          positionCount, lastSavedPosition, eeprom, dirPin, ref, script,
          budget, motor>>

(***************************************************************************)
(* Program constants                                                       *)
(***************************************************************************)
NAME_SIZE == 11
RECORD_SIZE == 4 + NAME_SIZE
maxPositions == 10
lastSavedPositionInit == -9999
EEPROM_SIZE == 4 + maxPositions * RECORD_SIZE

(***************************************************************************)
(* Bound of the model: GOTO can walk the motor away from zero without      *)
(* limit (each tie of the planner goes 100 further down), so the commands  *)
(* explored are those that leave it within MaxTravel steps of zero.        *)
(***************************************************************************)
MaxTravel == 200

\* A scripted session fills the table with up to maxPositions entries, one
\* command at a time; the user may leave it after any of its commands, and
\* MaxCmds commands are explored from there.
MaxCmds == 2

LOW == "LOW"
HIGH == "HIGH"

(***************************************************************************)
(* Machine arithmetic and strings                                          *)
(***************************************************************************)
\* conversion of a long to the 16-bit int of the AVR target
Int16(n) == (((n % 65536) + 32768) % 65536) - 32768

\* the range of a long of the AVR target (32 bits)
MaxLong == 2147483647
MinLong == -MaxLong - 1

\* a - b on longs where the result is stored in 32 bits (two's complement).
\* SubOverflows says that the difference does not fit, which the language
\* leaves undefined.
SubOverflows(a, b) ==
    IF b <= 0 THEN a > MaxLong + b ELSE a < MinLong + b

LongSub(a, b) ==
    IF ~SubOverflows(a, b) THEN a - b
    ELSE IF b <= 0 THEN ((a + MinLong) - b) + MinLong
    ELSE (((a - MinLong) - b) + MaxLong) + 1

\* a + b on longs, likewise
AddOverflows(a, b) ==
    IF b >= 0 THEN a > MaxLong - b ELSE a < MinLong - b

LongAdd(a, b) ==
    IF ~AddOverflows(a, b) THEN a + b
    ELSE IF b >= 0 THEN ((a + MinLong) + b) + MinLong
    ELSE (((a - MinLong) + b) + MaxLong) + 1

\* the abs() macro of Arduino.h, ((x)>0?(x):-(x)), on a long.  -MinLong does
\* not fit a long (undefined); this is the value of the build that stores
\* the negation in 32 bits, where it is MinLong again.  The build that does
\* not is AbsLess below.
abs(x) == IF x > 0 THEN x ELSE IF x = MinLong THEN MinLong ELSE -x

\* abs(x) < abs(y) of line 285 in the build b.  In the "wide" build the
\* negation of MinLong is the number 2^31, larger than every other abs().
AbsLess(b, x, y) ==
    IF b # "wide" THEN abs(x) < abs(y)
    ELSE IF x = MinLong THEN FALSE
    ELSE IF y = MinLong THEN TRUE
    ELSE abs(x) < abs(y)

\* String::toUpperCase on a sequence of character codes
UpperChar(c) == IF c >= 97 /\ c <= 122 THEN c - 32 ELSE c
toUpperCase(s) == [i \in 1..Len(s) |-> UpperChar(s[i])]

\* byte k (0 = least significant) of a 4-byte two's complement long
\* (\div rounds down, so a negative v yields its two's complement bytes)
LongByte(v, k) == (v \div (256 ^ k)) % 256

\* EEPROM.get(address, long): four little-endian bytes as a signed long
GetLong(mem, address) ==
    LET top == mem[address + 3]
    IN  mem[address] + 256 * mem[address + 1] + 65536 * mem[address + 2]
        + 16777216 * (IF top >= 128 THEN top - 256 ELSE top)

\* String(const char*): the characters before the first null
RECURSIVE CString(_)
CString(bytes) ==
    IF bytes = <<>> \/ Head(bytes) = 0 THEN <<>>
    ELSE <<Head(bytes)>> \o CString(Tail(bytes))

(***************************************************************************)
(* The controller state as one record, so that the handlers compose the    *)
(* way the calls in the source do.  Its log field collects what a handler  *)
(* does to the outside, in order: writes of the DIR pin, step pulses,      *)
(* calls of saveToEEPROM (1: bytes written, 0: skipped) and serial lines.  *)
(* Its build field says what the compiled program does where the source    *)
(* leaves it undefined (see Builds), its overflow field whether the        *)
(* handler went through such a place.  dirtyCheck is TRUE in the program;  *)
(* the reference controller of AlwaysWrites runs without the check of      *)
(* line 353.                                                               *)
(***************************************************************************)
\* Negating the int -32768 (line 217) and multiplying it by -1 (line 228)
\* overflow the 16-bit int, which the language leaves undefined.  What a
\* build does there:
\*   "promote": the negation is stored back as -32768, the product is
\*              computed in a wider type (+32768);
\*   "wrap":    negation and product both wrap to -32768;
\*   "wide":    the negated count is kept in a wider register (32768).
\* The long arithmetic of lines 280-285 overflows as well (the difference
\* of line 280, the negation in abs of line 285).  There "promote" and
\* "wrap" store every result in 32 bits, and "wide" computes lines 280-285
\* without loss and stores the low 32 bits in shortestSteps.
\* The long arithmetic of the range checks (lines 104 and 124), of line 141
\* and of the position update (line 228) overflows once the position is
\* next to an end of the long range.  "promote" and "wrap" compare the
\* 32-bit result in lines 104 and 124, "wide" compares the exact one.
\* currentPosition is a 32-bit object: line 228 leaves the low 32 bits of
\* the sum in it in every build.
Builds == { "promote", "wrap", "wide" }

Ctl == [currentPosition   |-> currentPosition,
        resetPosition     |-> resetPosition,
        positionNames     |-> positionNames,
        positionValues    |-> positionValues,
        positionCount     |-> positionCount,
        lastSavedPosition |-> lastSavedPosition,
        eeprom            |-> eeprom,
        dirPin            |-> dirPin,
        build             |-> "promote",
        overflow          |-> FALSE,
        dirtyCheck        |-> TRUE,
        log               |-> <<>>]

Ev(kind, n) == [ev |-> kind, n |-> n]
Emit(S, kind, n) == [S EXCEPT !.log = Append(@, Ev(kind, n))]
\* Serial.println of one status line (n: the number printed in it, if any)
Println(S, text, n) == Emit(S, text, n)

\* digitalWrite(dirPin, level)
WriteDir(S, level) == Emit([S EXCEPT !.dirPin = level], "dirPin", IF level = HIGH THEN 1 ELSE 0)

\* the pulse loop of moveMotor (lines 220-226) with bound n: n pulses on
\* stepPin, none when the bound is not positive
StepPulses(S, n) == IF n > 0 THEN Emit(S, "pulses", n) ELSE S

(***************************************************************************)
(* moveMotor (lines 205-234).  The parameter is an int: the caller's value *)
(* is converted to 16 bits.                                                *)
(***************************************************************************)
\* steps after lines 210-218: the count the loop, the position update and
\* the serial line use
Magnitude(S, steps) ==
    IF steps > 0 THEN steps
    ELSE IF steps # -32768 THEN -steps
    ELSE IF S.build = "wide" THEN 32768 ELSE -32768

\* steps * (digitalRead(dirPin) == HIGH ? 1 : -1) of line 228
SignedSteps(S, n) ==
    IF S.dirPin = HIGH THEN n
    ELSE IF n # -32768 THEN -n
    ELSE IF S.build = "promote" THEN 32768 ELSE -32768

\* lines 207-226: the direction line is set and the pulses are emitted
moveMotorPulsed(S, arg) ==
    LET steps == Int16(arg) IN
    IF steps = 0 THEN S
    ELSE LET S0 == [S EXCEPT !.overflow = @ \/ steps = -32768]
             S1 == IF steps > 0 THEN WriteDir(S0, HIGH) ELSE WriteDir(S0, LOW)
         IN  StepPulses(S1, Magnitude(S, steps))

moveMotor(S, arg) ==
    LET steps == Int16(arg) IN
    IF steps = 0 THEN S
    ELSE
      LET n  == Magnitude(S, steps)
          S2 == moveMotorPulsed(S, arg)
          S3 == [S2 EXCEPT
                   !.currentPosition = LongAdd(@, SignedSteps(S2, n)),
                   !.overflow = @ \/ AddOverflows(S2.currentPosition,
                                                  SignedSteps(S2, n))]
      IN  Println(S3, IF S3.dirPin = HIGH THEN "Motor moved steps right."
                                          ELSE "Motor moved steps left.", n)

(***************************************************************************)
(* findNamedPosition (lines 318-328): first index of the live prefix whose *)
(* name equals name, or -1.                                                *)
(***************************************************************************)
\* mutant: the scan starts at index 1
findNamedPosition_FromOne(S, name) ==
    LET hits == {i \in 1..(S.positionCount - 1) : S.positionNames[i] = name}
    IN  IF hits = {} THEN -1
        ELSE CHOOSE i \in hits : \A j \in hits : i <= j

findNamedPosition(S, name) ==
    LET hits == {i \in 0..(S.positionCount - 1) : S.positionNames[i] = name}
    IN  IF hits = {} THEN -1
        ELSE CHOOSE i \in hits : \A j \in hits : i <= j

(***************************************************************************)
(* saveToEEPROM (lines 350-377)                                            *)
(***************************************************************************)
\* The byte the block of lines 354-372 leaves at address a.  The block
\* writes every address once: EEPROM.put(0, currentPosition) the four header
\* bytes, iteration i of the loop the RECORD_SIZE bytes from 4 + i * RECORD_SIZE
\* (a long, least significant byte first, then NAME_SIZE name bytes).
SavedByte(S, a) ==
    IF a < 4 THEN LongByte(S.currentPosition, a)
    ELSE LET i   == (a - 4) \div RECORD_SIZE
             off == (a - 4) % RECORD_SIZE
         IN  IF i < S.positionCount
             THEN IF off < 4
                  THEN LongByte(S.positionValues[i], off)
                  ELSE LET j == off - 4
                       IN  IF j < Len(S.positionNames[i])
                           THEN S.positionNames[i][j + 1] ELSE 0
             ELSE IF off < 4 THEN LongByte(0, off) ELSE 0

saveToEEPROM(S) ==
    IF ~S.dirtyCheck \/ S.currentPosition # S.lastSavedPosition
    THEN LET mem == [a \in DOMAIN S.eeprom |-> SavedByte(S, a)]
         IN  Emit([S EXCEPT !.eeprom = mem,
                            !.lastSavedPosition = S.currentPosition],
                  "saveToEEPROM", 1)
    ELSE Emit(S, "saveToEEPROM", 0)

(***************************************************************************)
(* loadFromEEPROM (lines 380-417)                                          *)
(***************************************************************************)
\* lines 399-403: the slot's bytes, the last one forced to null
ReadName(mem, address) ==
    [j \in 1..NAME_SIZE |->
        IF j = NAME_SIZE THEN 0 ELSE mem[address + 4 + (j - 1)]]

\* lines 393-416, from iteration i on
RECURSIVE LoadRecords(_, _)
LoadRecords(S, i) ==
    IF i >= maxPositions THEN S
    ELSE LET address == 4 + i * RECORD_SIZE
             value   == GetLong(S.eeprom, address)
             name    == ReadName(S.eeprom, address)
         IN  IF name[1] = 0 THEN S
             ELSE LET S1 == [S EXCEPT
                               !.positionNames[S.positionCount] = CString(name),
                               !.positionValues[S.positionCount] = value,
                               !.positionCount = @ + 1]
                  IN  IF S1.positionCount >= maxPositions THEN S1
                      ELSE LoadRecords(S1, i + 1)

\* mutant: the header is taken as it is read
loadFromEEPROM_NoRangeCheck(S) ==
    LET S1 == [S EXCEPT !.currentPosition = GetLong(S.eeprom, 0)]
    IN  LoadRecords([S1 EXCEPT !.positionCount = 0], 0)

loadFromEEPROM(S) ==
    LET S1 == [S EXCEPT !.currentPosition = GetLong(S.eeprom, 0)]
        S2 == IF S1.currentPosition < -100 \/ S1.currentPosition > 100
              THEN [Println(S1, "Invalid position in EEPROM, resetting to 0.", 0)
                      EXCEPT !.currentPosition = 0]
              ELSE S1
    IN  LoadRecords([S2 EXCEPT !.positionCount = 0], 0)

(***************************************************************************)
(* addNamedPosition (lines 237-263)                                        *)
(***************************************************************************)
\* mutant: no check for a name already present
addNamedPosition_NoDuplicateCheck(S, name) ==
    IF S.positionCount >= maxPositions
    THEN Println(S, "Cannot add more positions. Maximum reached.", 0)
    ELSE IF Len(name) > NAME_SIZE - 1
    THEN Println(S, "Position name is too long.", 0)
    ELSE LET S1 == [S EXCEPT
                      !.positionNames[S.positionCount] = name,
                      !.positionValues[S.positionCount] =
                          LongSub(S.currentPosition, S.resetPosition),
                      !.positionCount = @ + 1]
         IN  Println(saveToEEPROM(S1), "Position saved.", 0)

addNamedPosition(S, name) ==
    IF S.positionCount >= maxPositions
    THEN Println(S, "Cannot add more positions. Maximum reached.", 0)
    ELSE IF findNamedPosition(S, name) # -1
    THEN Println(S, "Position name already exists! Use a unique name.", 0)
    ELSE IF Len(name) > NAME_SIZE - 1
    THEN Println(S, "Position name is too long.", 0)
    ELSE LET S1 == [S EXCEPT
                      !.positionNames[S.positionCount] = name,
                      !.positionValues[S.positionCount] =
                          LongSub(S.currentPosition, S.resetPosition),
                      !.positionCount = @ + 1]
         IN  Println(saveToEEPROM(S1), "Position saved.", 0)

(***************************************************************************)
(* moveToNamedPosition (lines 266-292)                                     *)
(***************************************************************************)
\* lines 280-285: the step count handed to moveMotor, in the build b
\* mutant: <= for < in the comparison of the two candidates
shortestSteps_TieForward(b, targetPosition, currentRelative) ==
    LET directSteps == LongSub(targetPosition, currentRelative)
        clockwiseSteps ==
            IF directSteps >= 0 THEN directSteps ELSE 200 + directSteps
        counterClockwiseSteps ==
            IF directSteps <= 0 THEN directSteps ELSE -200 + directSteps
    IN  IF abs(clockwiseSteps) <= abs(counterClockwiseSteps)
        THEN clockwiseSteps ELSE counterClockwiseSteps

\* lines 280-285 go through an overflow: the difference of line 280 does
\* not fit, or it is MinLong, which abs negates in line 285
LongOverflows(targetPosition, currentRelative) ==
    \/ SubOverflows(targetPosition, currentRelative)
    \/ LongSub(targetPosition, currentRelative) = MinLong

\* Where the difference d of line 280 does not fit a long, the "wide" build
\* has |d| > 200, so line 285 picks d - 200 for a positive d (which a
\* currentRelative <= 0 makes) and d + 200 for a negative d.
shortestSteps(b, targetPosition, currentRelative) ==
    LET directSteps == LongSub(targetPosition, currentRelative)
        clockwiseSteps ==
            IF directSteps >= 0 THEN directSteps ELSE 200 + directSteps
        counterClockwiseSteps ==
            IF directSteps <= 0 THEN directSteps ELSE -200 + directSteps
    IN  IF b = "wide" /\ SubOverflows(targetPosition, currentRelative)
        THEN IF currentRelative <= 0 THEN LongSub(directSteps, 200)
             ELSE LongSub(directSteps, -200)
        ELSE IF AbsLess(b, clockwiseSteps, counterClockwiseSteps)
        THEN clockwiseSteps ELSE counterClockwiseSteps

moveToNamedPosition(S, name) ==
    LET index == findNamedPosition(S, name) IN
    IF index = -1
    THEN Println(S, "Position not found.", 0)
    ELSE LET targetPosition  == S.positionValues[index]
             currentRelative == LongSub(S.currentPosition, S.resetPosition)
             S0 == [S EXCEPT !.overflow =
                       @ \/ LongOverflows(targetPosition, currentRelative)]
             S1 == moveMotor(S0, shortestSteps(S.build, targetPosition,
                                                currentRelative))
         IN  Println(saveToEEPROM(S1), "Moved to position using shortest path.", 0)

(***************************************************************************)
(* deleteNamedPosition (lines 295-315)                                     *)
(***************************************************************************)
\* lines 304-307: the shift loop, from iteration i on
\* mutant: the loop moves the names and leaves the values
RECURSIVE ShiftLeft_NamesOnly(_, _)
ShiftLeft_NamesOnly(S, i) ==
    IF i >= S.positionCount - 1 THEN S
    ELSE ShiftLeft_NamesOnly(
             [S EXCEPT !.positionNames[i] = S.positionNames[i + 1]], i + 1)

RECURSIVE ShiftLeft(_, _)
ShiftLeft(S, i) ==
    IF i >= S.positionCount - 1 THEN S
    ELSE ShiftLeft([S EXCEPT !.positionNames[i] = S.positionNames[i + 1],
                             !.positionValues[i] = S.positionValues[i + 1]],
                   i + 1)

deleteNamedPosition(S, name) ==
    LET index == findNamedPosition(S, name) IN
    IF index = -1
    THEN Println(S, "Position not found.", 0)
    ELSE LET S1 == ShiftLeft(S, index)
             S2 == [S1 EXCEPT !.positionCount = @ - 1]
         IN  Println(saveToEEPROM(S2), "Position deleted.", 0)

(***************************************************************************)
(* listNamedPositions (lines 331-347), printCommands (lines 191-202)       *)
(***************************************************************************)
RECURSIVE ListFrom(_, _)
ListFrom(S, i) ==
    IF i >= S.positionCount THEN S
    ELSE ListFrom(Println(S, "Name: , Position: ", S.positionValues[i]), i + 1)

listNamedPositions(S) ==
    IF S.positionCount = 0 THEN Println(S, "No saved positions.", 0)
    ELSE ListFrom(Println(S, "Saved positions:", 0), 0)

HelpLines ==
    << "Commands:",
       "MVL <steps> - move left",
       "MVR <steps> - move right",
       "RST - reset the position",
       "POS - view current position",
       "ADDPOS <name> - add a new position",
       "GOTO <name> - go to <name> position",
       "DLPOS <name> - delete <name> position",
       "LSTPOS - list saved positions" >>

printCommands(S) ==
    [S EXCEPT !.log = @ \o [k \in 1..Len(HelpLines) |-> Ev(HelpLines[k], 0)]]

(***************************************************************************)
(* setup (lines 55-78) on the globals as the C++ runtime initialises them  *)
(***************************************************************************)
Globals(mem) ==
    [currentPosition   |-> 0,
     resetPosition     |-> 0,
     positionNames     |-> [i \in 0..(maxPositions - 1) |-> <<>>],
     positionValues    |-> [i \in 0..(maxPositions - 1) |-> 0],
     positionCount     |-> 0,
     lastSavedPosition |-> lastSavedPositionInit,
     eeprom            |-> mem,
     dirPin            |-> LOW,
     build             |-> "promote",
     overflow          |-> FALSE,
     dirtyCheck        |-> TRUE,
     log               |-> <<>>]

setup(S) ==
    LET S1 == Println(S, "A4988 Stepper Motor Controller Ready.", 0)
        S2 == WriteDir(S1, LOW)
        S3 == loadFromEEPROM(printCommands(S2))
    IN  Println(S3, "Current stepper position: ", S3.currentPosition)

(***************************************************************************)
(* State update: the variables take the fields of the record a handler     *)
(* returns.                                                                *)
(***************************************************************************)
Becomes(S) ==
    /\ currentPosition'   = S.currentPosition
    /\ resetPosition'     = S.resetPosition
    /\ positionNames'     = S.positionNames
    /\ positionValues'    = S.positionValues
    /\ positionCount'     = S.positionCount
    /\ lastSavedPosition' = S.lastSavedPosition
    /\ eeprom'            = S.eeprom
    /\ dirPin'            = S.dirPin

\* the same for an initial state
StartsAs(S) ==
    /\ currentPosition   = S.currentPosition
    /\ resetPosition     = S.resetPosition
    /\ positionNames     = S.positionNames
    /\ positionValues    = S.positionValues
    /\ positionCount     = S.positionCount
    /\ lastSavedPosition = S.lastSavedPosition
    /\ eeprom            = S.eeprom
    /\ dirPin            = S.dirPin

\* The reference controller runs the same handler without the dirty check
\* of saveToEEPROM (line 353 reads if (true)): every call of saveToEEPROM
\* writes.
AlwaysWrites(R) ==
    [R EXCEPT !.dirtyCheck = FALSE, !.overflow = FALSE, !.log = <<>>]

\* handler result S went through an overflow (lines 217 and 228, or lines
\* 280-285)
Overflowed(S) == S.overflow

\* One command, handled to completion by handler H.  The controller and the
\* reference controller (when there is one) handle the same command; the
\* comparison of the two ends once their EEPROMs differ.  Likewise the motor
\* shaft (when it is followed) is followed until currentPosition and the
\* shaft differ.
Running ==
    /\ budget # 0
    /\ ref # <<>> => ref[1].eeprom = eeprom
    /\ motor # <<>> => motor[1] = currentPosition

\* The steps the motor turns for the pulses of a log, from entry k on: each
\* pulse is one step in the direction the DIR line has when it is emitted.
RECURSIVE Travel(_, _, _)
Travel(log, k, dir) ==
    IF k > Len(log) THEN 0
    ELSE IF log[k].ev = "dirPin"
    THEN Travel(log, k + 1, IF log[k].n = 1 THEN 1 ELSE -1)
    ELSE IF log[k].ev = "pulses"
    THEN dir * log[k].n + Travel(log, k + 1, dir)
    ELSE Travel(log, k + 1, dir)

Displacement(S) == Travel(S.log, 1, IF dirPin = HIGH THEN 1 ELSE -1)

\* the positions explored: within MaxTravel steps of zero or of an end of
\* the long range
InReach(p) ==
    \/ -MaxTravel <= p /\ p <= MaxTravel
    \/ p <= MinLong + MaxTravel
    \/ p >= MaxLong - MaxTravel

\* A command that runs into the overflow has one outcome per build.
Outcome(S, R) ==
    /\ InReach(S.currentPosition)
    /\ Becomes(S)
    /\ motor' = IF motor = <<>> THEN motor
                ELSE <<motor[1] + Displacement(S)>>
    /\ ref' = R

Step(H(_)) ==
    LET S0 == H(Ctl) IN
    IF Overflowed(S0)
    THEN \E b \in Builds :
            Outcome(H([Ctl EXCEPT !.build = b]),
                    IF ref = <<>> THEN ref
                    ELSE <<H([AlwaysWrites(ref[1]) EXCEPT !.build = b])>>)
    ELSE Outcome(S0, IF ref = <<>> THEN ref ELSE <<H(AlwaysWrites(ref[1]))>>)

(***************************************************************************)
(* processCommand (lines 95-189), one action per branch.  num is the value *)
(* of substring(4).toInt(), raw the text after the keyword.                *)
(***************************************************************************)
\* currentPosition - steps >= -100 of line 104 in the build b
LeftGuard(b, position, steps) ==
    IF SubOverflows(position, steps)
    THEN b # "wide" /\ LongSub(position, steps) >= -100
    ELSE position - steps >= -100

\* currentPosition + steps <= 100 of line 124 in the build b
RightGuard(b, position, steps) ==
    IF AddOverflows(position, steps)
    THEN b # "wide" /\ LongAdd(position, steps) <= 100
    ELSE position + steps <= 100

CmdMVL(S, num) ==
    LET steps == Int16(num) IN
    IF steps > 0
    THEN LET S0 == [S EXCEPT !.overflow =
                       @ \/ SubOverflows(S.currentPosition, steps)]
         IN  IF LeftGuard(S.build, S.currentPosition, steps)
             THEN saveToEEPROM(moveMotor(S0, -steps))
             ELSE Println(S0, "Movement exceeds allowed range (-100 to 100).", 0)
    ELSE Println(S, "Invalid step count!", 0)

CmdMVR(S, num) ==
    LET steps == Int16(num) IN
    IF steps > 0
    THEN LET S0 == [S EXCEPT !.overflow =
                       @ \/ AddOverflows(S.currentPosition, steps)]
         IN  IF RightGuard(S.build, S.currentPosition, steps)
             THEN saveToEEPROM(moveMotor(S0, steps))
             ELSE Println(S0, "Movement exceeds allowed range (-100 to 100).", 0)
    ELSE Println(S, "Invalid step count!", 0)

\* mutant: RST takes the place the motor is at as the new zero
CmdRST_ZeroHere(S) ==
    LET stepsToZero == LongSub(S.resetPosition, S.currentPosition)
        S1 == IF stepsToZero # 0
              THEN Println(S, "Position reset.", 0)
              ELSE Println(S, "Motor already at zero position.", 0)
    IN  [S1 EXCEPT !.resetPosition = S.currentPosition]

CmdRST(S) ==
    LET stepsToZero == LongSub(S.resetPosition, S.currentPosition)
        S0 == [S EXCEPT !.overflow =
                  @ \/ SubOverflows(S.resetPosition, S.currentPosition)]
        S1 == IF stepsToZero # 0
              THEN Println(saveToEEPROM(moveMotor(S0, stepsToZero)),
                           "Position reset.", 0)
              ELSE Println(S, "Motor already at zero position.", 0)
    IN  [S1 EXCEPT !.resetPosition = 0, !.currentPosition = 0]

CmdPOS(S) ==
    Println(S, "Current Position: ",
            LongSub(S.currentPosition, S.resetPosition))

\* text after the keyword: "a", "" (no argument) and an 11-character name
RawNames == { <<97>>, <<>>,
              <<76, 79, 78, 71, 78, 65, 77, 69, 88, 89, 90>> }

\* The names of a scripted session: "G", "HH", "III", ... of 1 to
\* maxPositions characters.
Filler(i) == [j \in 1..(i + 1) |-> 71 + i]
FillerNames == { Filler(i) : i \in 0..(maxPositions - 1) }

AllNames == RawNames \cup FillerNames

\* the names the commands explored take: those of the session only once it
\* has begun
CmdNames == IF budget >= 0 THEN RawNames \cup FillerNames ELSE RawNames

\* values of toInt()
StepArgs == { -50, 0, 50, 100 }

\* The session, a command <<keyword, argument>> per line typed:
\* MVL 80, ADDPOS G, then MVR 20, ADDPOS <next name>, and so on.
ScriptSteps == { 20, 80 }
AllSteps == StepArgs \cup ScriptSteps
ScriptLen == 2 * maxPositions
ScriptCmd(i) ==
    IF i = 0 THEN <<"MVL", 80>>
    ELSE IF i % 2 = 1 THEN <<"ADDPOS", Filler((i - 1) \div 2)>>
    ELSE <<"MVR", 20>>

\* c is the command the session has next
Scripted(c) ==
    /\ script >= 0
    /\ script < ScriptLen
    /\ c[1] = ScriptCmd(script)[1]
    /\ c[2] = ScriptCmd(script)[2]

\* c is a command the user types outside the session
FreeCmd(c) ==
    IF c[1] \in {"MVL", "MVR"} THEN c[2] \in StepArgs
    ELSE IF c[1] \in {"ADDPOS", "GOTO", "DLPOS"} THEN c[2] \in CmdNames
    ELSE TRUE

Typed(c) == Scripted(c) \/ FreeCmd(c)

\* the session advances by its command; any other command ends it and is
\* counted
Spend(c) ==
    IF Scripted(c)
    THEN script' = script + 1 /\ budget' = MaxCmds
    ELSE script' = -1 /\ budget' = IF budget > 0 THEN budget - 1 ELSE budget

MVL(num) ==
    /\ Running
    /\ Typed(<<"MVL", num>>)
    /\ LET H(S) == CmdMVL(S, num) IN Step(H)
    /\ Spend(<<"MVL", num>>)

MVR(num) ==
    /\ Running
    /\ Typed(<<"MVR", num>>)
    /\ LET H(S) == CmdMVR(S, num) IN Step(H)
    /\ Spend(<<"MVR", num>>)

RST ==
    /\ Running
    /\ Step(CmdRST)
    /\ Spend(<<"RST", 0>>)

POS ==
    /\ Running
    /\ Step(CmdPOS)
    /\ Spend(<<"POS", 0>>)

ADDPOS(raw) ==
    /\ Running
    /\ Typed(<<"ADDPOS", raw>>)
    /\ LET H(S) == addNamedPosition(S, toUpperCase(raw)) IN Step(H)
    /\ Spend(<<"ADDPOS", raw>>)

GOTO(raw) ==
    /\ Running
    /\ Typed(<<"GOTO", raw>>)
    /\ LET H(S) == moveToNamedPosition(S, toUpperCase(raw)) IN Step(H)
    /\ Spend(<<"GOTO", raw>>)

DLPOS(raw) ==
    /\ Running
    /\ Typed(<<"DLPOS", raw>>)
    /\ LET H(S) == deleteNamedPosition(S, toUpperCase(raw)) IN Step(H)
    /\ Spend(<<"DLPOS", raw>>)

LSTPOS ==
    /\ Running
    /\ Step(listNamedPositions)
    /\ Spend(<<"LSTPOS", 0>>)

\* power is removed and restored between two commands: the globals are
\* initialised again, the EEPROM keeps its bytes, setup() runs
Reboot(S) ==
    setup([Globals(S.eeprom) EXCEPT !.build = S.build,
                                    !.dirtyCheck = S.dirtyCheck])

PowerCycle ==
    /\ Running
    /\ Step(Reboot)
    /\ Spend(<<"power cycle", 0>>)

(***************************************************************************)
(* Initial states and next-state relation                                  *)
(***************************************************************************)
ZeroedEEPROM == [a \in 0..(EEPROM_SIZE - 1) |-> 0]

FirstBoot == setup(Globals(ZeroedEEPROM))

\* first boot, on zeroed storage
Init ==
    /\ StartsAs(FirstBoot)
    /\ ref = <<>>
    /\ script = 0
    /\ budget = -1
    /\ motor = <<>>

Next ==
    \/ \E num \in AllSteps : MVL(num)
    \/ \E num \in AllSteps : MVR(num)
    \/ RST
    \/ POS
    \/ \E raw \in AllNames : ADDPOS(raw)
    \/ \E raw \in AllNames : GOTO(raw)
    \/ \E raw \in AllNames : DLPOS(raw)
    \/ LSTPOS
    \/ PowerCycle

Spec == Init /\ [][Next]_vars

\* first boot on zeroed storage, beside the reference controller
InitRef ==
    /\ StartsAs(FirstBoot)
    /\ ref = <<FirstBoot>>
    /\ script = 0
    /\ budget = -1
    /\ motor = <<>>

SpecRef == InitRef /\ [][Next]_vars

\* first boot on zeroed storage, the motor shaft followed
InitMotor ==
    /\ StartsAs(FirstBoot)
    /\ ref = <<>>
    /\ script = 0
    /\ budget = -1
    /\ motor = <<0>>

SpecMotor == InitMotor /\ [][Next]_vars

(***************************************************************************)
(* The far end of the walk.  GOTO has no range check and a tie of the      *)
(* planner takes the motor 100 steps down, so the session                  *)
(*   ADDPOS p0, MVL 100, then for k = 1, 2, ...:                           *)
(*   ADDPOS pk, GOTO p(k-1), DLPOS p(k-1)                                  *)
(* lowers currentPosition by 100 with every round.  After round k the      *)
(* motor is at c = -100 * (k + 1), the table holds pk with the value       *)
(* c + 100, the last save is the one of GOTO (header c, p(k-1) with the    *)
(* value c + 200 and pk in the record area; the save of DLPOS is skipped)  *)
(* and the direction line is LOW.  FarState(c) is that state, with the     *)
(* names G for p(k-1) and A for pk; FarPosition is the last c of the walk  *)
(* above MinLong.  SpecFar explores the commands of the first boot and     *)
(* MaxCmds commands from there.                                            *)
(***************************************************************************)
FarPosition == -2147483600

FarState(c) ==
    LET T == [Globals(ZeroedEEPROM) EXCEPT
                 !.currentPosition = c,
                 !.positionNames[0] = <<71>>,
                 !.positionValues[0] = c + 200,
                 !.positionNames[1] = <<65>>,
                 !.positionValues[1] = c + 100,
                 !.positionCount = 2]
        G == saveToEEPROM(T)
    IN  [G EXCEPT !.positionNames[0] = <<65>>,
                  !.positionValues[0] = c + 100,
                  !.positionCount = 1,
                  !.log = <<>>]

InitFar ==
    \/ Init
    \/ /\ StartsAs(FarState(FarPosition))
       /\ ref = <<>>
       /\ script = -1
       /\ budget = MaxCmds
       /\ motor = <<>>

SpecFar == InitFar /\ [][Next]_vars

(***************************************************************************)
(* Boot on storage of any content: the header holds one of HeaderValues,   *)
(* the record area one of Layouts.  The boot on zeroed storage is one of   *)
(* them; after the others MaxCmds commands are explored.                   *)
(***************************************************************************)
HeaderValues == { MinLong, -101, -100, -1, 0, 100, 101, MaxLong }

\* the RECORD_SIZE bytes of a slot holding value and the name bytes given
SlotBytes(value, bytes) ==
    [off \in 0..(RECORD_SIZE - 1) |->
        IF off < 4 THEN LongByte(value, off)
        ELSE IF off - 4 < Len(bytes) THEN bytes[off - 3] ELSE 0]

\* record areas, as functions of the slot index: zeroed; erased (every byte
\* 255); an entry "A", an empty slot and an entry "B" behind it; an entry
\* whose NAME_SIZE name bytes are all non-null, then an entry "C"; entries
\* "A" and "G" holding the least and the greatest long
Layouts ==
    { [i \in 0..(maxPositions - 1) |-> SlotBytes(0, <<>>)],
      [i \in 0..(maxPositions - 1) |-> [off \in 0..(RECORD_SIZE - 1) |-> 255]],
      [i \in 0..(maxPositions - 1) |->
          IF i = 0 THEN SlotBytes(50, <<65>>)
          ELSE IF i = 2 THEN SlotBytes(-50, <<66>>)
          ELSE SlotBytes(0, <<>>)],
      [i \in 0..(maxPositions - 1) |->
          IF i = 0 THEN SlotBytes(-100, [j \in 1..NAME_SIZE |-> 87])
          ELSE IF i = 1 THEN SlotBytes(100, <<67>>)
          ELSE SlotBytes(0, <<>>)],
      [i \in 0..(maxPositions - 1) |->
          IF i = 0 THEN SlotBytes(MinLong, <<65>>)
          ELSE IF i = 1 THEN SlotBytes(MaxLong, <<71>>)
          ELSE SlotBytes(0, <<>>)] }

Image(h, lay) ==
    [a \in 0..(EEPROM_SIZE - 1) |->
        IF a < 4 THEN LongByte(h, a)
        ELSE lay[(a - 4) \div RECORD_SIZE][(a - 4) % RECORD_SIZE]]

InitLoad ==
    \E h \in HeaderValues, lay \in Layouts :
        /\ StartsAs(setup(Globals(Image(h, lay))))
        /\ ref = <<>>
        /\ script = IF Image(h, lay) = ZeroedEEPROM THEN 0 ELSE -1
        /\ budget = IF Image(h, lay) = ZeroedEEPROM THEN -1 ELSE MaxCmds
        /\ motor = <<>>

SpecLoad == InitLoad /\ [][Next]_vars

(***************************************************************************)
(* Vocabulary of the properties                                            *)
(***************************************************************************)
\* the position shown to the user
Logical(S) == S.currentPosition - S.resetPosition

\* the live table: the (name, value) pairs of the prefix [0, positionCount)
Live(S) ==
    [i \in 1..S.positionCount |->
        <<S.positionNames[i - 1], S.positionValues[i - 1]>>]

Present(S, name) ==
    \E i \in 0..(S.positionCount - 1) : S.positionNames[i] = name

\* what a handler did to the outside
Printed(S, text) == \E k \in 1..Len(S.log) : S.log[k].ev = text
\* the pulses on stepPin in a log, from entry k on
RECURSIVE PulsesFrom(_, _)
PulsesFrom(log, k) ==
    IF k > Len(log) THEN 0
    ELSE (IF log[k].ev = "pulses" THEN log[k].n ELSE 0) + PulsesFrom(log, k + 1)

PulseCount(S) == PulsesFrom(S.log, 1)

\* the state a power cycle now would leave
AfterPowerCycle == Reboot(Ctl)

(***************************************************************************)
(* C1: after any sequence of commands and power cycles from a first boot   *)
(* on zeroed storage, the logical position currentPosition - resetPosition *)
(* lies within -100..100; no command, GOTO included, moves the motor       *)
(* outside that window.                                                    *)
(***************************************************************************)
C1_WithinSafeRange == Logical(Ctl) >= -100 /\ Logical(Ctl) <= 100

(***************************************************************************)
(* C2: named positions persist across power cycles: whenever the names of  *)
(* the live table have 1 to 10 characters (the command that produced the   *)
(* table has completed, and has called saveToEEPROM), a power cycle        *)
(* reconstructs the same (name, value) pairs in the same order.            *)
(***************************************************************************)
C2_TablePersists ==
    (\A i \in 0..(positionCount - 1) :
         Len(positionNames[i]) >= 1 /\ Len(positionNames[i]) <= NAME_SIZE - 1)
    => Live(AfterPowerCycle) = Live(Ctl)

(***************************************************************************)
(* C3: the dirty check of saveToEEPROM changes nothing observable: after   *)
(* every completed command the EEPROM holds the bytes it holds in a        *)
(* controller whose saveToEEPROM always writes and that was given the same *)
(* commands.                                                               *)
(***************************************************************************)
C3_DirtyCheckUnobservable == ref # <<>> => ref[1].eeprom = eeprom

(***************************************************************************)
(* C4: a deleted entry is not resurrected: once DLPOS name has deleted the *)
(* entry, a power cycle yields a table in which name is not found.         *)
(***************************************************************************)
C4_DeletedStaysDeleted ==
    [][\A raw \in AllNames :
          (DLPOS(raw) /\ Present(Ctl, toUpperCase(raw)))
          => findNamedPosition(AfterPowerCycle', toUpperCase(raw)) = -1]_vars

(***************************************************************************)
(* C5: a rejected command has no side effect.  MVL/MVR with a step count   *)
(* <= 0 or that would leave the range, ADDPOS on a full table, of a name   *)
(* already present or of a name longer than 10 characters, DLPOS and GOTO  *)
(* of an unknown name: each leaves currentPosition, resetPosition, the     *)
(* table and the EEPROM as they were and emits no step pulse.              *)
(***************************************************************************)
\* handler result S changed nothing of the state it was applied to
Untouched(S) ==
    /\ S.currentPosition = currentPosition
    /\ S.resetPosition = resetPosition
    /\ S.positionCount = positionCount
    /\ Live(S) = Live(Ctl)
    /\ S.eeprom = eeprom
    /\ PulseCount(S) = 0

C5_RejectedHasNoEffect ==
    /\ \A num \in StepArgs :
         /\ (num <= 0 \/ Logical(Ctl) < num - 100) => Untouched(CmdMVL(Ctl, num))
         /\ (num <= 0 \/ Logical(Ctl) > 100 - num) => Untouched(CmdMVR(Ctl, num))
    /\ \A raw \in AllNames :
         LET name == toUpperCase(raw) IN
         /\ (positionCount = maxPositions \/ Present(Ctl, name) \/ Len(name) > 10)
              => Untouched(addNamedPosition(Ctl, name))
         /\ ~Present(Ctl, name)
              => /\ Untouched(deleteNamedPosition(Ctl, name))
                 /\ Untouched(moveToNamedPosition(Ctl, name))

(***************************************************************************)
(* C6: a name accepted by ADDPOS on a table of k < 10 entries is appended  *)
(* at index k with the current logical position as its value, and          *)
(* find(name) then returns k; after DLPOS name, find(name) returns -1.     *)
(***************************************************************************)
C6_AddThenFindThenDelete ==
    \A raw \in AllNames :
      LET name == toUpperCase(raw)
          A    == addNamedPosition(Ctl, name)
          D    == deleteNamedPosition(A, name)
      IN  Printed(A, "Position saved.")
          => /\ positionCount < maxPositions
             /\ A.positionCount = positionCount + 1
             /\ A.positionNames[positionCount] = name
             /\ A.positionValues[positionCount] = Logical(Ctl)
             /\ \A i \in 0..(positionCount - 1) :
                    /\ A.positionNames[i] = positionNames[i]
                    /\ A.positionValues[i] = positionValues[i]
             /\ findNamedPosition(A, name) = positionCount
             /\ Printed(D, "Position deleted.")
             /\ findNamedPosition(D, name) = -1
             /\ ~Present(D, name)

\* ADDPOS A has been accepted on the nine entries of a session, away from zero
C6_Witness ==
    /\ positionCount = maxPositions
    /\ positionNames[maxPositions - 1] = <<65>>
    /\ positionValues[maxPositions - 1] # 0
    /\ positionNames[maxPositions - 2] = Filler(maxPositions - 2)
    /\ findNamedPosition(Ctl, <<65>>) = maxPositions - 1

(***************************************************************************)
(* C7: deleting the entry at index i of a table of k entries leaves the    *)
(* k-1 others, in their order and each with its own value, for every       *)
(* i in 0..k-1 and every k in 1..10.                                       *)
(***************************************************************************)
\* sequence s without its element at position p
RemoveAt(s, p) ==
    [q \in 1..(Len(s) - 1) |-> IF q < p THEN s[q] ELSE s[q + 1]]

C7_DeleteRemovesExactlyOne ==
    \A i \in 0..(positionCount - 1) :
      LET D == deleteNamedPosition(Ctl, positionNames[i])
      IN  /\ D.positionCount = positionCount - 1
          /\ Live(D) = RemoveAt(Live(Ctl), i + 1)

\* DLPOS KKKKK has deleted the fifth of the ten entries of a session
C7_Witness ==
    /\ positionCount = maxPositions - 1
    /\ \A i \in 0..3 : positionNames[i] = Filler(i)
    /\ \A i \in 4..(maxPositions - 2) :
           /\ positionNames[i] = Filler(i + 1)
           /\ positionValues[i] = 20 * (i + 1) - 80

(***************************************************************************)
(* C8: in every state reached from a first boot on zeroed storage the live *)
(* prefix has pairwise distinct names and 0 <= positionCount <= 10.        *)
(***************************************************************************)
C8_UniqueNamesBoundedCount ==
    /\ positionCount >= 0
    /\ positionCount <= maxPositions
    /\ \A i, j \in 0..(positionCount - 1) :
           positionNames[i] = positionNames[j] => i = j

\* the count is at its bound: the table is full, it holds A, and ADDPOS A is
\* refused
C8_Witness ==
    /\ positionCount = maxPositions
    /\ Printed(addNamedPosition(Ctl, <<65>>),
               "Cannot add more positions. Maximum reached.")
    /\ Present(Ctl, <<65>>)

(***************************************************************************)
(* C9: the step count GOTO hands to moveMotor is the minimal signed delta  *)
(* under wraparound with period 200: congruent to target - current modulo  *)
(* 200 and of magnitude at most 100, for every entry of the table in every *)
(* reachable state.                                                        *)
(***************************************************************************)
C9_MinimalDelta ==
    \A i \in 0..(positionCount - 1) :
      LET delta == shortestSteps(Ctl.build, positionValues[i], Logical(Ctl))
      IN  /\ (delta - (positionValues[i] - Logical(Ctl))) % 200 = 0
          /\ abs(delta) <= 100

(***************************************************************************)
(* C10, as claimed: in the antipodal case |target - current| = 100 the     *)
(* planner picks the forward candidate +100.                               *)
(***************************************************************************)
\* entry i of the table is 100 steps from the motor, above or below
Antipodal(i) ==
    /\ ~SubOverflows(positionValues[i], Logical(Ctl))
    /\ LongSub(positionValues[i], Logical(Ctl)) \in {100, -100}

C10_TieGoesForward ==
    \A i \in 0..(positionCount - 1) :
      Antipodal(i)
      => \A b \in Builds :
           shortestSteps(b, positionValues[i], Logical(Ctl)) = 100

(***************************************************************************)
(* C10, amended: in the antipodal case |target - current| = 100 the        *)
(* planner picks the backward candidate -100, both when target - current   *)
(* is +100 and when it is -100, in every build, and GOTO emits 100 pulses  *)
(* with the direction line LOW.                                            *)
(***************************************************************************)
C10_TieGoesBackward ==
    \A i \in 0..(positionCount - 1) :
      Antipodal(i)
      => /\ \A b \in Builds :
              shortestSteps(b, positionValues[i], Logical(Ctl)) = -100
         /\ LET G == moveToNamedPosition(Ctl, positionNames[i])
            IN  /\ PulseCount(G) = 100
                /\ G.dirPin = LOW

\* the table holds an entry 100 above the motor and one 100 below it, and
\* GOTO of either emits 100 pulses to the left
C10_Witness ==
    \E i, j \in 0..(positionCount - 1) :
      /\ LongSub(positionValues[i], Logical(Ctl)) = 100
      /\ LongSub(positionValues[j], Logical(Ctl)) = -100
      /\ Antipodal(i)
      /\ Antipodal(j)
      /\ PulseCount(moveToNamedPosition(Ctl, positionNames[i])) = 100
      /\ PulseCount(moveToNamedPosition(Ctl, positionNames[j])) = 100
      /\ moveToNamedPosition(Ctl, positionNames[i]).dirPin = LOW
      /\ moveToNamedPosition(Ctl, positionNames[j]).dirPin = LOW

(***************************************************************************)
(* C11: for any storage contents loadFromEEPROM does not propagate an      *)
(* out-of-range header: a header outside -100..100 loads as position 0     *)
(* with the anomaly reported, a header inside loads as it is; in both      *)
(* cases the records are loaded (the slots up to the first one whose first *)
(* name byte is null) and the controller takes commands.                   *)
(***************************************************************************)
\* number of slots before the first one whose first name byte is null
StoredPrefix(mem) ==
    Cardinality({k \in 0..(maxPositions - 1) :
                    \A i \in 0..k : mem[4 + i * RECORD_SIZE + 4] # 0})

\* the first NAME_SIZE - 1 name bytes of slot i
NameBytes(mem, i) ==
    [j \in 1..(NAME_SIZE - 1) |-> mem[4 + i * RECORD_SIZE + 4 + (j - 1)]]

C11_LoadGuardsHeader ==
    LET h == GetLong(eeprom, 0)
        L == loadFromEEPROM(Globals(eeprom))
        n == StoredPrefix(eeprom)
        anomaly == "Invalid position in EEPROM, resetting to 0."
    IN  /\ (h < -100 \/ h > 100)
             => L.currentPosition = 0 /\ Printed(L, anomaly)
        /\ (h >= -100 /\ h <= 100)
             => L.currentPosition = h /\ ~Printed(L, anomaly)
        /\ L.positionCount = n
        /\ \A i \in 0..(n - 1) :
               /\ L.positionValues[i] = GetLong(eeprom, 4 + i * RECORD_SIZE)
               /\ L.positionNames[i] = CString(NameBytes(eeprom, i))
        /\ Printed(CmdPOS(L), "Current Position: ")
        /\ PulseCount(CmdMVL(L, 50)) = 50 \/ PulseCount(CmdMVR(L, 50)) = 50

\* the controller has just booted on storage whose header is above the range
\* and whose first slot holds an entry
C11_Witness ==
    /\ GetLong(eeprom, 0) > 100
    /\ StoredPrefix(eeprom) >= 1
    /\ lastSavedPosition = lastSavedPositionInit
    /\ currentPosition = 0
    /\ positionCount = StoredPrefix(eeprom)

(***************************************************************************)
(* C12: in every reachable state and for every step count s > 0 for which  *)
(* MVL s is accepted, MVL s followed by MVR s is accepted too and returns  *)
(* the logical position to its value before the two commands.              *)
(***************************************************************************)
C12_LeftThenRightReturns ==
    \A s \in StepArgs :
      LET A == CmdMVL(Ctl, s)
          B == CmdMVR([A EXCEPT !.log = <<>>], s)
      IN  (s > 0 /\ PulseCount(A) = s)
          => /\ PulseCount(B) = s
             /\ Logical(B) = Logical(Ctl)

(***************************************************************************)
(* C13: for every state-changing command (MVL, MVR, RST with movement,     *)
(* GOTO, ADDPOS, DLPOS) the flush to the EEPROM happens before any serial  *)
(* line of that command: in what the handler does to the outside, the call *)
(* of saveToEEPROM comes first and no serial line precedes it.  (A command *)
(* is one step of the controller: it completes before the next is read.)   *)
(***************************************************************************)
\* the kinds of the entries of a log that are not serial lines
NotSerial == { "dirPin", "pulses", "saveToEEPROM" }

\* handler result S changed position or table, and flushed before it printed
FlushedBeforeAck(S) ==
    (S.currentPosition # currentPosition \/ Live(S) # Live(Ctl))
    => \E k \in 1..Len(S.log) :
          /\ S.log[k].ev = "saveToEEPROM"
          /\ \A q \in 1..(k - 1) : S.log[q].ev \in NotSerial

C13_FlushBeforeAck ==
    /\ \A num \in StepArgs :
         /\ FlushedBeforeAck(CmdMVL(Ctl, num))
         /\ FlushedBeforeAck(CmdMVR(Ctl, num))
    /\ FlushedBeforeAck(CmdRST(Ctl))
    /\ \A raw \in AllNames :
         /\ FlushedBeforeAck(addNamedPosition(Ctl, toUpperCase(raw)))
         /\ FlushedBeforeAck(moveToNamedPosition(Ctl, toUpperCase(raw)))
         /\ FlushedBeforeAck(deleteNamedPosition(Ctl, toUpperCase(raw)))

(***************************************************************************)
(* C14: moveMotor(delta) with delta # 0 sets the direction line HIGH iff   *)
(* delta > 0, emits exactly |delta| step pulses and, the position still    *)
(* being what it was when the last pulse is out, then changes              *)
(* currentPosition by exactly delta; moveMotor(0) touches neither the      *)
(* direction line, the step line, currentPosition nor the serial output.   *)
(* resetPosition and the table are unchanged in both cases.  This for      *)
(* every int delta and whatever the build does at an overflow.             *)
(***************************************************************************)
\* step counts handed to moveMotor, the two ends of the int range included
MotorArgs == { -32768, -32767, -300, -100, -1, 0, 1, 100, 300, 32767 }

\* the contract for the step count delta in the build b
MoveMotorContract(delta, b) ==
    LET C == [Ctl EXCEPT !.build = b]
        P == moveMotorPulsed(C, delta)
        M == moveMotor(C, delta)
    IN  /\ M.resetPosition = resetPosition
        /\ M.positionCount = positionCount
        /\ Live(M) = Live(Ctl)
        /\ M.eeprom = eeprom
        /\ delta = 0 => M = C /\ P = C
        /\ delta # 0 =>
             /\ M.dirPin = (IF delta > 0 THEN HIGH ELSE LOW)
             /\ P.currentPosition = currentPosition
             /\ P.log = <<Ev("dirPin", IF delta > 0 THEN 1 ELSE 0),
                          Ev("pulses", abs(delta))>>
             /\ PulseCount(M) = abs(delta)
             /\ M.currentPosition = currentPosition + delta

C14_MoveMotorContract ==
    \A delta \in MotorArgs, b \in Builds : MoveMotorContract(delta, b)

(***************************************************************************)
(* C15: in every state reached from a boot on zeroed storage the stored    *)
(* records have no interior gap: a slot whose first name byte is null is   *)
(* not followed by a slot whose first name byte is non-null.               *)
(***************************************************************************)
C15_NoGapOnDisk ==
    \A i, j \in 0..(maxPositions - 1) :
      (i < j /\ eeprom[4 + i * RECORD_SIZE + 4] = 0)
      => eeprom[4 + j * RECORD_SIZE + 4] = 0

(***************************************************************************)
(* C16: after a successful GOTO name the motor is at the named position:   *)
(* the logical position POS reports equals the value recorded for name,    *)
(* for every reachable position and every stored value.                    *)
(***************************************************************************)
C16_GotoReachesValue ==
    \A i \in 0..(positionCount - 1) :
      LET G == moveToNamedPosition(Ctl, positionNames[i])
          v == positionValues[findNamedPosition(Ctl, positionNames[i])]
      IN  /\ Printed(G, "Moved to position using shortest path.")
          /\ Logical(G) = v
          /\ CmdPOS(G).log[Len(CmdPOS(G).log)] = Ev("Current Position: ", v)

(***************************************************************************)
(* C17: currentPosition tracks the motor: in every state between commands, *)
(* the state loadFromEEPROM restores after a power cycle included,         *)
(* currentPosition equals the signed sum of the step pulses emitted since  *)
(* the first boot on zeroed storage.                                       *)
(***************************************************************************)
C17_PositionTracksMotor == motor # <<>> => currentPosition = motor[1]

(***************************************************************************)
(* C18: no sequence of commands puts an entry with an empty name into the  *)
(* live table: ADDPOS with an empty name is rejected, so the slot of every *)
(* live entry starts with a non-null byte.                                 *)
(***************************************************************************)
C18_NoEmptyName ==
    /\ \A i \in 0..(positionCount - 1) : positionNames[i] # <<>>
    /\ ~Printed(addNamedPosition(Ctl, <<>>), "Position saved.")

(***************************************************************************)
(* C19: resetPosition is 0 in every reachable state (RST and a power cycle *)
(* leave it 0), so the logical position is currentPosition and the range   *)
(* guards of MVL and MVR, which are written on currentPosition, are the    *)
(* same guards on the logical position: in every build a move of s steps   *)
(* is made exactly when s > 0 and the guard of line 104 (line 124),        *)
(* evaluated on the logical position, lets it pass.                        *)
(***************************************************************************)
C19_ResetPositionZero ==
    /\ resetPosition = 0
    /\ Logical(Ctl) = currentPosition
    /\ CmdRST(Ctl).resetPosition = 0
    /\ AfterPowerCycle.resetPosition = 0
    /\ \A s \in StepArgs, b \in Builds :
         LET C == [Ctl EXCEPT !.build = b] IN
         /\ PulseCount(CmdMVL(C, s)) > 0
              <=> (s > 0 /\ LeftGuard(b, Logical(Ctl), s))
         /\ PulseCount(CmdMVR(C, s)) > 0
              <=> (s > 0 /\ RightGuard(b, Logical(Ctl), s))

\* RST has brought the motor back from the left (the last save is the one of
\* RST, at 0, with the direction line HIGH) and the table holds an entry
\* recorded away from zero
C19_Witness ==
    /\ currentPosition = 0
    /\ lastSavedPosition = 0
    /\ dirPin = HIGH
    /\ positionCount > 0
    /\ positionValues[0] < 0
    /\ eeprom[0] = 0
    /\ Printed(CmdRST(Ctl), "Motor already at zero position.")

====
